---- MODULE Spec2Model ----
(***************************************************************************)
(* A model of factom-monitor (package monitor, src/monitor.go, the         *)
(* revision of lines 193-436): the Position kept by the State Tracker      *)
(* (newHeight), the four kinds of listener channels fed by notify and      *)
(* notifyError, the poller goroutine (run) and Stop.  The remote node is   *)
(* the test server of src/monitor_test.go (tick, api).                     *)
(*                                                                         *)
(* Time is counted in milliseconds.                                        *)
(***************************************************************************)
EXTENDS Integers, Sequences, FiniteSets, TLC

VARIABLES
    height,             \* m.height
    minute,             \* m.minute
    dbheight,           \* m.dbheight
    minuteListeners,    \* m.minuteListeners: a sequence of channel buffers
    heightListeners,    \* m.heightListeners
    dbheightListeners,  \* m.dbheightListeners
    errorListeners,     \* m.errorListeners
    close,              \* m.close: TRUE once the channel is closed
    closer,             \* m.closer (sync.Once): "fresh", "running", "done"
    closes,             \* how many times close(m.close) was executed
    pc,                 \* where the goroutine of run is
    resp,               \* run's local resp (nil, or the Observation received)
    err,                \* run's local err (nil, or the error)
    advanced,           \* the value m.newHeight(resp) returned last
    server,             \* the remote node: the test server's height and minute
    stopPc,             \* where each caller of Stop is
    minuteSeen,         \* per minute listener, its reader's hh and mm
    heightSeen,         \* per height listener, the value its reader got last
    dbheightSeen,       \* per dbheight listener, the value its reader got last
    eventCount,         \* the test's eventCount, per minute and per height reader
    pollers,            \* how many times go m.run(response) was executed
    ctx,                \* the context of run's request: "none", "live", "cancelled"
    elapsed,            \* time.Since(last), as run evaluated it after a Transition
    timer,              \* the duration of the time.After that run waits for
    heightMtx,          \* m.heightMtx: "free", or who holds it ("run", "get")
    listenerMtx,        \* m.listenerMtx: "free", or who holds it ("run", "sub")
    subPc,              \* where the caller of a New...Listener is
    flags,              \* newHeight's locals newHeight and newDBHeight, and
                        \* how many listeners there were when it compared
    getPc,              \* where the caller of GetCurrentMinute is
    snapshot            \* what that caller has read: height, dbheight, minute

position  == <<height, minute, dbheight>>
listeners == <<minuteListeners, heightListeners, dbheightListeners, errorListeners>>
readers   == <<minuteSeen, heightSeen, dbheightSeen, eventCount>>
runner    == <<pc, resp, err, advanced>>
stopping  == <<close, closer, closes, stopPc>>
locking   == <<heightMtx, listenerMtx, flags>>
getter    == <<getPc, snapshot>>
extra     == <<pollers, ctx, elapsed, timer, locking, getter, subPc>>
vars      == <<position, listeners, readers, runner, stopping, server, extra>>

(***************************************************************************)
(* Bounds of the model.                                                    *)
(***************************************************************************)
\* the heights the remote node reaches: 0..MaxHeight
MaxHeight == 2
\* the heights and committed heights of an arbitrary Observation: 0..MaxObsHeight
MaxObsHeight == 2
\* the goroutines that call Stop
NumStoppers == 2
\* the listeners of each kind
NumListeners == 1
\* the values a reader lets queue up before the node goes on
MaxBacklog == 2
\* the heights the node reaches when channels are to overflow: 0..MaxBlocks
MaxBlocks == 7
\* the minutes the node advances while the mutexes are watched
MaxTicks == 2

(***************************************************************************)
(* Constants of the program.                                               *)
(***************************************************************************)
Interval == 1000
Timeout == 5000
MinuteCap == 25
HeightCap == 6
DBHeightCap == 6
ErrorCap == 6
\* the block time the test servers report (time.Second*10)
DBlockSeconds == 10

\* a nil *MinuteResponse, and a nil error
nil == <<>>
noError == "nil"
Stoppers == 1..NumStoppers

(***************************************************************************)
(* The remote node (the test server).                                      *)
(***************************************************************************)
\* testServer.api: the MinuteResponse for the server's height and minute
api(s) ==
    [DBHeight     |-> IF s.minute = 0 THEN s.height - 1 ELSE s.height,
     LeaderHeight |-> s.height,
     Minute       |-> s.minute]

\* testServer.tick: the next minute, rolling over into the next height
tick(s) ==
    IF s.minute + 1 > 9
    THEN [height |-> s.height + 1, minute |-> 0]
    ELSE [height |-> s.height, minute |-> s.minute + 1]

(***************************************************************************)
(* The State Tracker and the Broadcaster.                                  *)
(***************************************************************************)
\* a tracker that compares the raw minute
NormalizeNone(mn) == mn

\* resp.Minute %= 10
Normalize(mn) == mn % 10

\* a condition with >= for the minute: the same position counts as progress
IsProgressOrSame(r, h, mn) ==
    r.LeaderHeight > h \/ (r.LeaderHeight = h /\ r.Minute >= mn)

\* a condition that takes any other height for progress
IsProgressAnyHeight(r, h, mn) ==
    r.LeaderHeight # h \/ (r.LeaderHeight = h /\ r.Minute > mn)

\* a condition that forgets the minute: only a new height is progress
IsProgressHeightOnly(r, h, mn) ==
    r.LeaderHeight > h

\* the condition of newHeight: the Observation is ahead of (h, mn)
IsProgress(r, h, mn) ==
    r.LeaderHeight > h \/ (r.LeaderHeight = h /\ r.Minute > mn)

\* a channel that makes room by dropping its oldest value
TrySendDropOldest(l, v, cap) ==
    IF Len(l) < cap THEN Append(l, v) ELSE Append(Tail(l), v)

\* a channel that hands out the newest value first
TrySendFront(l, v, cap) == IF Len(l) < cap THEN <<v>> \o l ELSE l

\* select { case l <- v: default: } on a channel of capacity cap
TrySend(l, v, cap) == IF Len(l) < cap THEN Append(l, v) ELSE l

\* a loop that stops at the first full channel (a break for the default)
SendAllUntilFull(ls, v, cap) ==
    [i \in DOMAIN ls |->
        IF \E j \in 1..i : Len(ls[j]) >= cap THEN ls[i] ELSE Append(ls[i], v)]

\* for _, l := range ls { select { case l <- v: default: } }
SendAll(ls, v, cap) == [i \in DOMAIN ls |-> TrySend(ls[i], v, cap)]

\* an Event of the position that follows the stored one: a tracker that
\* walks through the positions it skipped
EventOfNext(r) ==
    IF minute >= 9
    THEN [DBHeight |-> r.DBHeight, Height |-> height + 1, Minute |-> 0]
    ELSE [DBHeight |-> r.DBHeight, Height |-> height, Minute |-> minute + 1]

\* the Event newHeight builds from the (normalized) response
EventOf(r) == [DBHeight |-> r.DBHeight, Height |-> r.LeaderHeight, Minute |-> r.Minute]

\* a notify that sends the height and the committed height of every Event
notifyEvery(e, h, db) ==
    /\ heightListeners' = SendAll(heightListeners, e.Height, HeightCap)
    /\ dbheightListeners' = SendAll(dbheightListeners, e.DBHeight, DBHeightCap)
    /\ minuteListeners' = SendAll(minuteListeners, e, MinuteCap)

\* Monitor.notify
notify(e, h, db) ==
    /\ heightListeners' =
          IF h THEN SendAll(heightListeners, e.Height, HeightCap) ELSE heightListeners
    /\ dbheightListeners' =
          IF db THEN SendAll(dbheightListeners, e.DBHeight, DBHeightCap)
          ELSE dbheightListeners
    /\ minuteListeners' = SendAll(minuteListeners, e, MinuteCap)

\* Monitor.notifyError
notifyError(e) ==
    errorListeners' = SendAll(errorListeners, e, ErrorCap)

\* a newHeight that takes over a greater committed height also when the
\* Observation is no progress in height and minute
newHeightStoresCommitted(response) ==
    LET r == [response EXCEPT !.Minute = Normalize(@)] IN
    IF IsProgress(r, height, minute)
    THEN /\ heightMtx = "free"
         /\ height' = r.LeaderHeight
         /\ minute' = r.Minute
         /\ dbheight' = r.DBHeight
         /\ notify(EventOf(r), r.LeaderHeight > height, r.DBHeight > dbheight)
         /\ advanced' = TRUE
    ELSE /\ dbheight' = IF r.DBHeight > dbheight THEN r.DBHeight ELSE dbheight
         /\ UNCHANGED <<height, minute, minuteListeners, heightListeners,
                        dbheightListeners>>
         /\ advanced' = FALSE

\* Monitor.newHeight.  resp.Minute %= 10 overwrites a field nothing reads
\* after newHeight returns: the model keeps resp as it was received and
\* newHeight works on r, the response with the minute reduced.
newHeight(response) ==
    LET r == [response EXCEPT !.Minute = Normalize(@)] IN
    IF IsProgress(r, height, minute)
    THEN /\ heightMtx = "free"
         /\ height' = r.LeaderHeight
         /\ minute' = r.Minute
         /\ dbheight' = r.DBHeight
         /\ notify(EventOf(r), r.LeaderHeight > height, r.DBHeight > dbheight)
         /\ advanced' = TRUE
    ELSE /\ UNCHANGED <<position, minuteListeners, heightListeners, dbheightListeners>>
         /\ advanced' = FALSE

(***************************************************************************)
(* Construction.                                                           *)
(***************************************************************************)
\* a seeding that takes the height from the committed height
SeedFromDBHeight(response) ==
    [height   |-> response.DBHeight,
     minute   |-> response.Minute,
     dbheight |-> response.DBHeight]

\* NewMonitor: the Position is seeded with the raw fields of the response
Seed(response) ==
    [height   |-> response.LeaderHeight,
     minute   |-> response.Minute,
     dbheight |-> response.DBHeight]

\* a Monitor was returned to the caller
Constructed == pc \notin {"new", "failed"}

\* n channels nobody has sent to
Attached(n) == [i \in 1..n |-> <<>>]

\* what the reader of a minute listener starts from: var mm, hh int64
ZeroSeen == [Height |-> 0, Minute |-> 0]

\* newHeight's locals before it has set them
NoFlags ==
    [newHeight |-> FALSE, newDBHeight |-> FALSE,
     known |-> [minute |-> 0, height |-> 0, dbheight |-> 0]]

\* the three results of GetCurrentMinute before any field was read
NoSnapshot == [height |-> 0, dbheight |-> 0, minute |-> 0]

\* new(Monitor), while NewMonitor waits for the seed response
InitNew ==
    /\ height = 0 /\ minute = 0 /\ dbheight = 0
    /\ minuteListeners = <<>> /\ heightListeners = <<>>
    /\ dbheightListeners = <<>> /\ errorListeners = <<>>
    /\ minuteSeen = <<>> /\ heightSeen = <<>> /\ dbheightSeen = <<>>
    /\ eventCount = [minute |-> <<>>, height |-> <<>>]
    /\ close = FALSE /\ closer = "fresh" /\ closes = 0
    /\ pc = "new" /\ resp = nil /\ err = noError /\ advanced = FALSE
    /\ stopPc = [c \in Stoppers |-> "idle"]
    /\ pollers = 0 /\ ctx = "none" /\ elapsed = 0 /\ timer = 0
    /\ heightMtx = "free" /\ listenerMtx = "free" /\ flags = NoFlags
    /\ subPc = "idle"
    /\ getPc = "idle" /\ snapshot = NoSnapshot

\* NewMonitor, the seed request answered: go m.run(response); return m, nil
NewMonitorOK ==
    /\ pc = "new"
    /\ height' = Seed(api(server)).height
    /\ minute' = Seed(api(server)).minute
    /\ dbheight' = Seed(api(server)).dbheight
    /\ close' = FALSE
    /\ pollers' = pollers + 1
    /\ pc' = "select"
    /\ UNCHANGED <<listeners, readers, resp, err, advanced, closer, closes, stopPc, server,
                   ctx, elapsed, timer, locking, getter, subPc>>

\* a NewMonitor that starts the goroutine before it looks at err
NewMonitorFailStarted ==
    /\ pc = "new"
    /\ pc' = "failed"
    /\ pollers' = pollers + 1
    /\ UNCHANGED <<position, listeners, readers, resp, err, advanced, stopping, server,
                   ctx, elapsed, timer, locking, getter, subPc>>

\* NewMonitor, the seed request failed: return nil, err
NewMonitorFail ==
    /\ pc = "new"
    /\ pc' = "failed"
    /\ UNCHANGED <<position, listeners, readers, resp, err, advanced, stopping, server,
                   extra>>

\* NewMonitor has returned a Monitor seeded from response, the goroutine of
\* run waits for its first tick, and n listeners of each kind were created
Started(response, n) ==
    /\ height = Seed(response).height
    /\ minute = Seed(response).minute
    /\ dbheight = Seed(response).dbheight
    /\ minuteListeners = Attached(n) /\ heightListeners = Attached(n)
    /\ dbheightListeners = Attached(n) /\ errorListeners = Attached(n)
    /\ minuteSeen = [i \in 1..n |-> ZeroSeen]
    /\ heightSeen = [i \in 1..n |-> 0]
    /\ dbheightSeen = [i \in 1..n |-> 0]
    /\ eventCount = [minute |-> [i \in 1..n |-> 0], height |-> [i \in 1..n |-> 0]]
    /\ close = FALSE /\ closer = "fresh" /\ closes = 0
    /\ pc = "select" /\ resp = nil /\ err = noError /\ advanced = FALSE
    /\ stopPc = [c \in Stoppers |-> "idle"]
    /\ pollers = 1 /\ ctx = "none" /\ elapsed = 0 /\ timer = 0
    /\ heightMtx = "free" /\ listenerMtx = "free" /\ flags = NoFlags
    /\ subPc = "idle"
    /\ getPc = "idle" /\ snapshot = NoSnapshot

\* a Monitor of the node at height 0, minute 0, with its listeners
Init ==
    /\ server = [height |-> 0, minute |-> 0]
    /\ Started(api(server), NumListeners)

(***************************************************************************)
(* The remote node advances.                                               *)
(***************************************************************************)
\* the Monitor has seen the node's present position
Observed ==
    LET r == api(server) IN ~IsProgress(r, height, minute)

\* the node's next minute, up to height max; the node is at most one minute
\* ahead of the Monitor
TickWithin(max) ==
    /\ tick(server).height <= max
    /\ Constructed
    /\ Observed
    /\ server' = tick(server)
    /\ UNCHANGED <<position, listeners, readers, runner, stopping,
                   extra>>

\* the node's next minute
Tick == TickWithin(MaxHeight)

(***************************************************************************)
(* Subscriptions and their readers.                                        *)
(***************************************************************************)
NewMinuteListener ==
    /\ Constructed
    /\ Len(minuteListeners) < NumListeners
    /\ minuteListeners' = Append(minuteListeners, <<>>)
    /\ minuteSeen' = Append(minuteSeen, ZeroSeen)
    /\ UNCHANGED <<position, heightListeners, dbheightListeners, errorListeners,
                   heightSeen, dbheightSeen, eventCount, runner, stopping, server,
                   extra>>

NewHeightListener ==
    /\ Constructed
    /\ Len(heightListeners) < NumListeners
    /\ heightListeners' = Append(heightListeners, <<>>)
    /\ heightSeen' = Append(heightSeen, 0)
    /\ UNCHANGED <<position, minuteListeners, dbheightListeners, errorListeners,
                   minuteSeen, dbheightSeen, eventCount, runner, stopping, server,
                   extra>>

NewDBHeightListener ==
    /\ Constructed
    /\ Len(dbheightListeners) < NumListeners
    /\ dbheightListeners' = Append(dbheightListeners, <<>>)
    /\ dbheightSeen' = Append(dbheightSeen, 0)
    /\ UNCHANGED <<position, minuteListeners, heightListeners, errorListeners,
                   minuteSeen, heightSeen, eventCount, runner, stopping, server,
                   extra>>

NewErrorListener ==
    /\ Constructed
    /\ Len(errorListeners) < NumListeners
    /\ errorListeners' = Append(errorListeners, <<>>)
    /\ UNCHANGED <<position, minuteListeners, heightListeners, dbheightListeners,
                   readers, runner, stopping, server,
                   extra>>

\* a reader receives from its minute listener: for e := range ml { hh = e.Height; mm = e.Minute }
TakeMinute(i) ==
    /\ Len(minuteListeners[i]) > 0
    /\ minuteSeen' = [minuteSeen EXCEPT ![i] =
                         [Height |-> Head(minuteListeners[i]).Height,
                          Minute |-> Head(minuteListeners[i]).Minute]]
    /\ minuteListeners' = [minuteListeners EXCEPT ![i] = Tail(@)]
    /\ UNCHANGED <<position, heightListeners, dbheightListeners, errorListeners,
                   heightSeen, dbheightSeen, runner, stopping, server,
                   extra>>

\* a reader that does not count
RecvMinute(i) == TakeMinute(i) /\ UNCHANGED eventCount

\* the minute reader of the test: eventCount[j]++
ReadMinute(i) ==
    /\ TakeMinute(i)
    /\ eventCount' = [eventCount EXCEPT !.minute[i] = @ + 1]

\* a reader receives from its height listener: for e := range hl { h = e }
TakeHeight(i) ==
    /\ Len(heightListeners[i]) > 0
    /\ heightSeen' = [heightSeen EXCEPT ![i] = Head(heightListeners[i])]
    /\ heightListeners' = [heightListeners EXCEPT ![i] = Tail(@)]
    /\ UNCHANGED <<position, minuteListeners, dbheightListeners, errorListeners,
                   minuteSeen, dbheightSeen, runner, stopping, server,
                   extra>>

\* a reader that does not count
RecvHeight(i) == TakeHeight(i) /\ UNCHANGED eventCount

\* the height reader of the test: eventCount[j]++
ReadHeight(i) ==
    /\ TakeHeight(i)
    /\ eventCount' = [eventCount EXCEPT !.height[i] = @ + 1]

RecvDBHeight(i) ==
    /\ Len(dbheightListeners[i]) > 0
    /\ dbheightSeen' = [dbheightSeen EXCEPT ![i] = Head(dbheightListeners[i])]
    /\ dbheightListeners' = [dbheightListeners EXCEPT ![i] = Tail(@)]
    /\ UNCHANGED <<position, minuteListeners, heightListeners, errorListeners,
                   minuteSeen, heightSeen, eventCount, runner, stopping, server,
                   extra>>

RecvError(i) ==
    /\ Len(errorListeners[i]) > 0
    /\ errorListeners' = [errorListeners EXCEPT ![i] = Tail(@)]
    /\ UNCHANGED <<position, minuteListeners, heightListeners, dbheightListeners,
                   readers, runner, stopping, server,
                   extra>>

(***************************************************************************)
(* The poller: Monitor.run.                                                *)
(***************************************************************************)
\* minute := time.Duration(resp.DBlockSeconds) * time.Second / 10
MinuteDuration == (DBlockSeconds * 1000) \div 10

\* the values time.Since(last) takes in the model
Elapsed == {0, MinuteDuration - Interval, MinuteDuration, MinuteDuration + Interval}

\* a check that also takes a difference of a whole Interval for on time
NearOrEqual(since) ==
    LET diff == MinuteDuration - since
    IN  (IF diff < 0 THEN -diff ELSE diff) <= Interval

\* time.After(minute - Interval)
SleepFor == MinuteDuration - Interval

\* diff := minute - time.Since(last); if diff < 0 { diff = -diff }; diff < Interval
Near(since) ==
    LET diff == MinuteDuration - since
    IN  (IF diff < 0 THEN -diff ELSE diff) < Interval

\* a loop that waits for the ticker alone (for range ticker.C)
CloseIgnored == FALSE

\* case <-m.close: a receive from m.close can proceed
CloseReady == close

\* select { case <-m.close: return; case <-ticker.C: }, the ticker's case,
\* then ctx, cancel := context.WithTimeout(context.Background(), Timeout)
RunTick ==
    /\ pc = "select"
    /\ pc' = "request"
    /\ ctx' = "live"
    /\ UNCHANGED <<position, listeners, readers, resp, err, advanced, stopping, server,
                   pollers, elapsed, timer, locking, getter, subPc>>

\* select { case <-m.close: return; ... }, at the top of the loop
RunExit ==
    /\ pc = "select"
    /\ CloseReady
    /\ pc' = "exited"
    /\ UNCHANGED <<position, listeners, readers, resp, err, advanced, stopping, server,
                   extra>>

\* m.FactomdRequest(ctx) returns the node's answer
RequestOK ==
    /\ pc = "request"
    /\ resp' = api(server)
    /\ err' = noError
    /\ pc' = "got"
    /\ UNCHANGED <<position, listeners, readers, advanced, stopping, server,
                   extra>>

\* the responses a node may give: any heights, a raw minute of 0..10
Observations ==
    [DBHeight : 0..MaxObsHeight, LeaderHeight : 0..MaxObsHeight, Minute : 0..10]

\* the readers of every listener outside skip have emptied their channels
Drained(skip) ==
    /\ \A i \in DOMAIN minuteListeners \ skip : minuteListeners[i] = <<>>
    /\ \A i \in DOMAIN heightListeners \ skip : heightListeners[i] = <<>>
    /\ \A i \in DOMAIN dbheightListeners \ skip : dbheightListeners[i] = <<>>

\* m.FactomdRequest(ctx) returns some Observation, whatever was seen before
\* (stale, repeated or ahead); the readers have kept up with the poller
RequestAny ==
    /\ pc = "request"
    /\ Drained({})
    /\ \E r \in Observations : resp' = r
    /\ err' = noError
    /\ pc' = "got"
    /\ UNCHANGED <<position, listeners, readers, advanced, stopping, server,
                   extra>>

\* m.FactomdRequest(ctx) returns an error (unreachable node, deadline exceeded)
RequestFail ==
    /\ pc = "request"
    /\ resp' = nil
    /\ err' = "error"
    /\ pc' = "got"
    /\ UNCHANGED <<position, listeners, readers, advanced, stopping, server,
                   extra>>

\* a loop that gives up at the first error: notifyError, then return
HandleErrorReturn ==
    /\ pc = "got"
    /\ err # noError
    /\ notifyError(err)
    /\ ctx' = "cancelled"
    /\ err' = noError
    /\ pc' = "exited"
    /\ UNCHANGED <<position, minuteListeners, heightListeners, dbheightListeners,
                   readers, resp, advanced, stopping, server,
                   pollers, elapsed, timer, locking, getter, subPc>>

\* if err != nil { m.notifyError(err); cancel(); continue }; err is not read again
HandleError ==
    /\ pc = "got"
    /\ err # noError
    /\ notifyError(err)
    /\ ctx' = "cancelled"
    /\ err' = noError
    /\ pc' = "select"
    /\ UNCHANGED <<position, minuteListeners, heightListeners, dbheightListeners,
                   readers, resp, advanced, stopping, server,
                   pollers, elapsed, timer, locking, getter, subPc>>

\* cancel(); m.newHeight(resp), the condition of the if; after a Transition
\* diff is computed from time.Since(last)
HandleResponse ==
    /\ pc = "got"
    /\ err = noError
    /\ ctx' = "cancelled"
    /\ newHeight(resp)
    /\ \E since \in Elapsed : elapsed' = IF advanced' THEN since ELSE 0
    /\ pc' = "handled"
    /\ UNCHANGED <<errorListeners, readers, resp, err, stopping, server,
                   pollers, timer, locking, getter, subPc>>

\* the body of the if after a Transition: last = time.Now(), then sleep
\* when the minute came on time, else back to the top of the loop; resp is
\* not read again
AfterResponse ==
    /\ pc = "handled"
    /\ IF advanced /\ Near(elapsed)
       THEN pc' = "sleep" /\ timer' = SleepFor
       ELSE pc' = "select" /\ timer' = timer
    /\ elapsed' = 0
    /\ resp' = nil
    /\ UNCHANGED <<position, listeners, readers, err, advanced, stopping, server,
                   pollers, ctx, locking, getter, subPc>>

\* case <-time.After(minute - Interval):
SleepWake ==
    /\ pc = "sleep"
    /\ pc' = "select"
    /\ UNCHANGED <<position, listeners, readers, resp, err, advanced, stopping, server,
                   extra>>

\* case <-m.close: return, during the sleep after a Transition
SleepExit ==
    /\ pc = "sleep"
    /\ CloseReady
    /\ pc' = "exited"
    /\ UNCHANGED <<position, listeners, readers, resp, err, advanced, stopping, server,
                   extra>>

(***************************************************************************)
(* Monitor.Stop.                                                           *)
(***************************************************************************)
\* a Stop that closes m.close without the sync.Once
OnceEveryCall == TRUE

\* sync.Once.Do runs its function when no call has run it yet
OnceFirst == closer = "fresh"

\* a goroutine calls m.Stop()
StopCall(c) ==
    /\ Constructed
    /\ stopPc[c] = "idle"
    /\ stopPc' = [stopPc EXCEPT ![c] = "do"]
    /\ UNCHANGED <<position, listeners, readers, runner, close, closer, closes, server,
                   extra>>

\* m.closer.Do(...): the first caller goes on to run the function, a caller
\* arriving while it runs waits, a later one returns at once
StopDo(c) ==
    /\ stopPc[c] = "do"
    /\ closer # "running"
    /\ IF OnceFirst
       THEN /\ closer' = "running"
            /\ stopPc' = [stopPc EXCEPT ![c] = "closing"]
       ELSE /\ closer' = closer
            /\ stopPc' = [stopPc EXCEPT ![c] = "returned"]
    /\ UNCHANGED <<position, listeners, readers, runner, close, closes, server,
                   extra>>

\* close(m.close), then Do and Stop return
StopClose(c) ==
    /\ stopPc[c] = "closing"
    /\ close' = TRUE
    /\ closes' = closes + 1
    /\ closer' = "done"
    /\ stopPc' = [stopPc EXCEPT ![c] = "returned"]
    /\ UNCHANGED <<position, listeners, readers, runner, server,
                   extra>>

(***************************************************************************)
(* The monitor with its poller, its subscribers and the callers of Stop.   *)
(***************************************************************************)
Next ==
    \/ Tick
    \/ RunTick
    \/ RunExit
    \/ RequestOK
    \/ RequestFail
    \/ HandleError
    \/ HandleResponse
    \/ AfterResponse
    \/ SleepWake
    \/ SleepExit
    \/ \E c \in Stoppers : StopCall(c) \/ StopDo(c) \/ StopClose(c)

Spec == Init /\ [][Next]_vars

\* a step of the goroutine of run
RunStep ==
    \/ RunTick \/ RunExit \/ RequestOK \/ RequestFail
    \/ HandleError \/ HandleResponse \/ AfterResponse \/ SleepWake \/ SleepExit

\* a step inside a call of Stop
StopStep == \E c \in Stoppers : StopDo(c) \/ StopClose(c)

\* the goroutines are scheduled (a request ends by its deadline at the
\* latest, tickers and timers fire), and a select whose cases are both ready
\* picks each of them at random, so the case of m.close at the top of the
\* loop is not passed over for ever
Fairness ==
    /\ WF_vars(RunStep)
    /\ SF_vars(RunExit)
    /\ WF_vars(StopStep)

\* a Monitor of the node at height 0, minute 0, that nobody subscribed to
InitBare ==
    /\ server = [height |-> 0, minute |-> 0]
    /\ Started(api(server), 0)

\* the poller and the callers of Stop, scheduled fairly
FairSpec == InitBare /\ [][Next]_vars /\ Fairness

(***************************************************************************)
(* The State Tracker fed with arbitrary Observations: a Monitor seeded     *)
(* from any Observation, one listener of each kind, each with a reader.    *)
(***************************************************************************)
InitTracker ==
    /\ server = [height |-> 0, minute |-> 0]
    /\ \E seed \in Observations : Started(seed, 1)

NextTracker ==
    \/ RunTick
    \/ RequestAny
    \/ HandleResponse
    \/ AfterResponse
    \/ SleepWake
    \/ \E i \in DOMAIN minuteListeners : RecvMinute(i)
    \/ \E i \in DOMAIN heightListeners : RecvHeight(i)
    \/ \E i \in DOMAIN dbheightListeners : RecvDBHeight(i)

SpecTracker == InitTracker /\ [][NextTracker]_vars

(***************************************************************************)
(* Subscribers that do not read: of every kind, listener 1 is never read   *)
(* and the other NumListeners have readers, which keep up with the node.   *)
(***************************************************************************)
\* the listeners nobody receives from
Unread == {1}

InitIsolation ==
    /\ server = [height |-> 0, minute |-> 0]
    /\ Started(api(server), NumListeners + 1)

\* the node's next minute, once the readers have emptied their channels
TickDrained ==
    /\ Drained(Unread)
    /\ Tick

NextIsolation ==
    \/ TickDrained
    \/ RunTick
    \/ RequestOK
    \/ RequestFail
    \/ HandleError
    \/ HandleResponse
    \/ AfterResponse
    \/ SleepWake
    \/ \E i \in DOMAIN minuteListeners \ Unread : RecvMinute(i)
    \/ \E i \in DOMAIN heightListeners \ Unread : RecvHeight(i)
    \/ \E i \in DOMAIN dbheightListeners \ Unread : RecvDBHeight(i)
    \/ \E i \in DOMAIN errorListeners \ Unread : RecvError(i)

SpecIsolation == InitIsolation /\ [][NextIsolation]_vars

(***************************************************************************)
(* The same subscribers with a node that lives long enough for every kind  *)
(* of channel to fill up.                                                  *)
(***************************************************************************)
\* of every kind, the listener nobody reads and one that is read
InitOverflow ==
    /\ server = [height |-> 0, minute |-> 0]
    /\ Started(api(server), Cardinality(Unread) + 1)

TickLong ==
    /\ Drained(Unread)
    /\ TickWithin(MaxBlocks)

NextOverflow ==
    \/ TickLong
    \/ RunTick
    \/ RequestOK
    \/ RequestFail
    \/ HandleError
    \/ HandleResponse
    \/ AfterResponse
    \/ SleepWake
    \/ \E i \in DOMAIN minuteListeners \ Unread : RecvMinute(i)
    \/ \E i \in DOMAIN heightListeners \ Unread : RecvHeight(i)
    \/ \E i \in DOMAIN dbheightListeners \ Unread : RecvDBHeight(i)
    \/ \E i \in DOMAIN errorListeners \ Unread : RecvError(i)

SpecOverflow == InitOverflow /\ [][NextOverflow]_vars

(***************************************************************************)
(* Monitor.GetCurrentMinute, one step per statement.                       *)
(***************************************************************************)
\* a mutex that lets everybody in
LockNone(mtx) == TRUE

\* sync.Mutex.Lock returns when nobody holds the mutex
LockFree(mtx) == mtx = "free"

\* m.heightMtx.Lock()
GetLock ==
    /\ Constructed
    /\ getPc \in {"idle", "returned"}
    /\ LockFree(heightMtx)
    /\ heightMtx' = "get"
    /\ getPc' = "height"
    /\ UNCHANGED <<position, listeners, readers, runner, stopping, server,
                   pollers, ctx, elapsed, timer, flags, snapshot, subPc, listenerMtx>>

\* return m.height, ...: the first operand
GetHeight ==
    /\ getPc = "height"
    /\ snapshot' = [snapshot EXCEPT !.height = height]
    /\ getPc' = "dbheight"
    /\ UNCHANGED <<position, listeners, readers, runner, stopping, server,
                   pollers, ctx, elapsed, timer, locking, subPc>>

\* return ..., m.dbheight, ...: the second operand
GetDBHeight ==
    /\ getPc = "dbheight"
    /\ snapshot' = [snapshot EXCEPT !.dbheight = dbheight]
    /\ getPc' = "minute"
    /\ UNCHANGED <<position, listeners, readers, runner, stopping, server,
                   pollers, ctx, elapsed, timer, locking, subPc>>

\* return ..., m.minute: the third operand
GetMinute ==
    /\ getPc = "minute"
    /\ snapshot' = [snapshot EXCEPT !.minute = minute]
    /\ getPc' = "unlock"
    /\ UNCHANGED <<position, listeners, readers, runner, stopping, server,
                   pollers, ctx, elapsed, timer, locking, subPc>>

\* defer m.heightMtx.Unlock(), and the call returns
GetUnlock ==
    /\ getPc = "unlock"
    /\ heightMtx' = "free"
    /\ getPc' = "returned"
    /\ UNCHANGED <<position, listeners, readers, runner, stopping, server,
                   pollers, ctx, elapsed, timer, flags, snapshot, subPc, listenerMtx>>

\* a step of a call of GetCurrentMinute
GetStep == GetLock \/ GetHeight \/ GetDBHeight \/ GetMinute \/ GetUnlock

(***************************************************************************)
(* Monitor.newHeight, one step per statement, for the calls that run       *)
(* while GetCurrentMinute does.                                            *)
(***************************************************************************)
\* resp after resp.Minute %= 10
Reduced(response) == [response EXCEPT !.Minute = Normalize(@)]

\* cancel(); newHeight up to m.heightMtx.Lock(): the condition of the if and
\* the locals newHeight and newDBHeight, or return false
NewHeightEnter ==
    /\ pc = "got"
    /\ err = noError
    /\ ctx' = "cancelled"
    /\ IF IsProgress(Reduced(resp), height, minute)
       THEN /\ flags' = [newHeight   |-> Reduced(resp).LeaderHeight > height,
                         newDBHeight |-> Reduced(resp).DBHeight > dbheight,
                         known       |-> [minute   |-> Len(minuteListeners),
                                          height   |-> Len(heightListeners),
                                          dbheight |-> Len(dbheightListeners)]]
            /\ pc' = "lock"
            /\ UNCHANGED <<advanced, elapsed, timer>>
       ELSE /\ advanced' = FALSE
            /\ elapsed' = 0
            /\ pc' = "handled"
            /\ UNCHANGED flags
    /\ UNCHANGED <<position, listeners, readers, resp, err, stopping, server,
                   pollers, timer, heightMtx, getter, subPc, listenerMtx>>

\* m.heightMtx.Lock()
NewHeightLock ==
    /\ pc = "lock"
    /\ LockFree(heightMtx)
    /\ heightMtx' = "run"
    /\ pc' = "storeHeight"
    /\ UNCHANGED <<position, listeners, readers, resp, err, advanced, stopping, server,
                   pollers, ctx, elapsed, timer, flags, getter, subPc, listenerMtx>>

\* m.height = resp.LeaderHeight
StoreHeight ==
    /\ pc = "storeHeight"
    /\ height' = Reduced(resp).LeaderHeight
    /\ pc' = "storeMinute"
    /\ UNCHANGED <<minute, dbheight, listeners, readers, resp, err, advanced, stopping,
                   server, extra>>

\* m.minute = resp.Minute
StoreMinute ==
    /\ pc = "storeMinute"
    /\ minute' = Reduced(resp).Minute
    /\ pc' = "storeDBHeight"
    /\ UNCHANGED <<height, dbheight, listeners, readers, resp, err, advanced, stopping,
                   server, extra>>

\* m.dbheight = resp.DBHeight
StoreDBHeight ==
    /\ pc = "storeDBHeight"
    /\ dbheight' = Reduced(resp).DBHeight
    /\ pc' = "unlock"
    /\ UNCHANGED <<height, minute, listeners, readers, resp, err, advanced, stopping,
                   server, extra>>

\* a newHeight that keeps the mutex until it returns (defer Unlock)
NewHeightUnlockDeferred ==
    /\ pc = "unlock"
    /\ pc' = "notify"
    /\ UNCHANGED <<position, listeners, readers, resp, err, advanced, stopping, server,
                   pollers, ctx, elapsed, timer, locking, getter, subPc>>

\* m.heightMtx.Unlock()
NewHeightUnlock ==
    /\ pc = "unlock"
    /\ heightMtx' = "free"
    /\ pc' = "notify"
    /\ UNCHANGED <<position, listeners, readers, resp, err, advanced, stopping, server,
                   pollers, ctx, elapsed, timer, flags, getter, subPc, listenerMtx>>

\* m.notify(e, newHeight, newDBHeight): m.listenerMtx.Lock()
NotifyLock ==
    /\ pc = "notify"
    /\ LockFree(listenerMtx)
    /\ listenerMtx' = "run"
    /\ pc' = "sending"
    /\ UNCHANGED <<position, listeners, readers, resp, err, advanced, stopping, server,
                   pollers, ctx, elapsed, timer, heightMtx, flags, getter, subPc>>

\* the sends of notify, its deferred Unlock, return true; diff is computed
NewHeightNotify ==
    /\ pc = "sending"
    /\ listenerMtx' = "free"
    /\ notify(EventOf(Reduced(resp)), flags.newHeight, flags.newDBHeight)
    /\ advanced' = TRUE
    /\ \E since \in Elapsed : elapsed' = since
    /\ flags' = NoFlags
    /\ pc' = "handled"
    /\ UNCHANGED <<position, errorListeners, readers, resp, err, stopping, server,
                   pollers, ctx, timer, heightMtx, getter, subPc>>

\* a step of newHeight's update of the Position
UpdateStep ==
    \/ NewHeightLock \/ StoreHeight \/ StoreMinute \/ StoreDBHeight
    \/ NewHeightUnlock \/ NotifyLock \/ NewHeightNotify

\* m.notifyError(err): m.listenerMtx.Lock()
NotifyErrorLock ==
    /\ pc = "got"
    /\ err # noError
    /\ LockFree(listenerMtx)
    /\ listenerMtx' = "run"
    /\ pc' = "sendingError"
    /\ UNCHANGED <<position, listeners, readers, resp, err, advanced, stopping, server,
                   pollers, ctx, elapsed, timer, heightMtx, flags, getter, subPc>>

\* the sends of notifyError, its deferred Unlock; cancel(); continue
NotifyErrorSend ==
    /\ pc = "sendingError"
    /\ notifyError(err)
    /\ listenerMtx' = "free"
    /\ ctx' = "cancelled"
    /\ err' = noError
    /\ pc' = "select"
    /\ UNCHANGED <<position, minuteListeners, heightListeners, dbheightListeners,
                   readers, resp, advanced, stopping, server,
                   pollers, elapsed, timer, heightMtx, flags, getter, subPc>>

(***************************************************************************)
(* New...Listener, one step per statement.                                 *)
(***************************************************************************)
\* the four kinds of listeners
Kinds == {"minute", "height", "dbheight", "error"}

\* the channels of a kind
ListenersOf(kind) ==
    CASE kind = "minute"   -> minuteListeners
      [] kind = "height"   -> heightListeners
      [] kind = "dbheight" -> dbheightListeners
      [] kind = "error"    -> errorListeners

\* how many listeners there are, of all kinds
TotalListeners ==
    Len(minuteListeners) + Len(heightListeners)
        + Len(dbheightListeners) + Len(errorListeners)

\* a New...Listener that hands out a channel holding the current Position
MakeChanReplay(kind) ==
    IF kind = "minute"
    THEN <<[DBHeight |-> dbheight, Height |-> height, Minute |-> minute]>>
    ELSE <<>>

\* l := make(chan ..., n): an empty channel
MakeChan(kind) == <<>>

\* m.listenerMtx.Lock() in New...Listener
SubLock(kind) ==
    /\ Constructed
    /\ subPc = "idle"
    /\ TotalListeners < NumListeners
    /\ LockFree(listenerMtx)
    /\ listenerMtx' = "sub"
    /\ subPc' = kind
    /\ UNCHANGED <<position, listeners, readers, runner, stopping, server,
                   pollers, ctx, elapsed, timer, heightMtx, flags, getter>>

\* l := make(chan ...); append; return l with the deferred Unlock; the
\* caller starts to read from l
SubAppend ==
    /\ subPc \in Kinds
    /\ listenerMtx' = "free"
    /\ subPc' = "idle"
    /\ minuteListeners' =
          IF subPc = "minute" THEN Append(minuteListeners, MakeChan(subPc)) ELSE minuteListeners
    /\ minuteSeen' = IF subPc = "minute" THEN Append(minuteSeen, ZeroSeen) ELSE minuteSeen
    /\ heightListeners' =
          IF subPc = "height" THEN Append(heightListeners, MakeChan(subPc)) ELSE heightListeners
    /\ heightSeen' = IF subPc = "height" THEN Append(heightSeen, 0) ELSE heightSeen
    /\ dbheightListeners' =
          IF subPc = "dbheight" THEN Append(dbheightListeners, MakeChan(subPc)) ELSE dbheightListeners
    /\ dbheightSeen' = IF subPc = "dbheight" THEN Append(dbheightSeen, 0) ELSE dbheightSeen
    /\ errorListeners' =
          IF subPc = "error" THEN Append(errorListeners, MakeChan(subPc)) ELSE errorListeners
    /\ UNCHANGED <<position, eventCount, runner, stopping, server,
                   pollers, ctx, elapsed, timer, heightMtx, flags, getter>>

\* a step of a call of one of the New...Listener
SubStep == (\E kind \in Kinds : SubLock(kind)) \/ SubAppend

(***************************************************************************)
(* Callers of GetCurrentMinute beside the poller of a node that advances.  *)
(***************************************************************************)
NextSnapshot ==
    \/ Tick
    \/ RunTick
    \/ RequestOK
    \/ NewHeightEnter
    \/ UpdateStep
    \/ AfterResponse
    \/ SleepWake
    \/ GetStep

SpecSnapshot == InitBare /\ [][NextSnapshot]_vars

(***************************************************************************)
(* The two mutexes: the poller, a caller of GetCurrentMinute, a caller of  *)
(* the New...Listener and the callers of Stop, every one statement by      *)
(* statement.                                                              *)
(***************************************************************************)
\* the node's first minutes
TickFew ==
    /\ 10 * server.height + server.minute < MaxTicks
    /\ Tick

NextLocks ==
    \/ TickFew
    \/ RunTick
    \/ RunExit
    \/ RequestOK
    \/ RequestFail
    \/ NotifyErrorLock
    \/ NotifyErrorSend
    \/ NewHeightEnter
    \/ UpdateStep
    \/ AfterResponse
    \/ SleepWake
    \/ SleepExit
    \/ GetStep
    \/ SubStep
    \/ StopCall(1) \/ StopDo(1) \/ StopClose(1)

SpecLocks == InitBare /\ [][NextLocks]_vars

(***************************************************************************)
(* Listeners made while the poller runs and after Stop, each with a        *)
(* consumer that receives from it.                                         *)
(***************************************************************************)
\* a node in the last minute of its block: the next minutes advance the
\* height and then the committed height
LateStart == [height |-> 0, minute |-> 9]

InitLate ==
    /\ server = LateStart
    /\ Started(api(server), 0)

\* the node's next minutes
TickLate ==
    /\ 10 * server.height + server.minute < 10 * LateStart.height + LateStart.minute + MaxTicks
    /\ Tick

NextLate ==
    \/ TickLate
    \/ RunTick
    \/ RunExit
    \/ RequestOK
    \/ RequestFail
    \/ NotifyErrorLock
    \/ NotifyErrorSend
    \/ NewHeightEnter
    \/ UpdateStep
    \/ AfterResponse
    \/ SleepWake
    \/ SleepExit
    \/ SubStep
    \/ StopCall(1) \/ StopDo(1) \/ StopClose(1)
    \/ \E i \in DOMAIN minuteListeners : RecvMinute(i)
    \/ \E i \in DOMAIN heightListeners : RecvHeight(i)
    \/ \E i \in DOMAIN dbheightListeners : RecvDBHeight(i)
    \/ \E i \in DOMAIN errorListeners : RecvError(i)

SpecLate == InitLate /\ [][NextLate]_vars

(***************************************************************************)
(* Construction: NewMonitor against a node that stands still at any        *)
(* position (the server of TestMonitor_GetCurrentMinute), then listeners,  *)
(* calls of GetCurrentMinute and the poller.                               *)
(***************************************************************************)
\* the positions of the test server
Servers == [height : 0..MaxHeight, minute : 0..9]

InitSeed ==
    /\ server \in Servers
    /\ InitNew

NextSeed ==
    \/ NewMonitorOK
    \/ NewMonitorFail
    \/ NewMinuteListener
    \/ NewHeightListener
    \/ NewDBHeightListener
    \/ NewErrorListener
    \/ GetStep
    \/ RunTick
    \/ RequestOK
    \/ HandleResponse
    \/ AfterResponse

SpecSeed == InitSeed /\ [][NextSeed]_vars

(***************************************************************************)
(* The listeners of TestMonitor_Listeners: minute and height listeners     *)
(* attached before the node's first tick, each with a reader that counts   *)
(* and may lag behind by MaxBacklog values; the poller sees every minute.   *)
(***************************************************************************)
\* no reader has MaxBacklog values waiting
Backlog ==
    /\ \A i \in DOMAIN minuteListeners : Len(minuteListeners[i]) < MaxBacklog
    /\ \A i \in DOMAIN heightListeners : Len(heightListeners[i]) < MaxBacklog

\* s.tick() of the test, once the readers have come close enough
TickBacklog ==
    /\ Backlog
    /\ Tick

NextSubscribers ==
    \/ TickBacklog
    \/ RunTick
    \/ RequestOK
    \/ RequestFail
    \/ HandleError
    \/ HandleResponse
    \/ AfterResponse
    \/ SleepWake
    \/ \E i \in DOMAIN minuteListeners : ReadMinute(i)
    \/ \E i \in DOMAIN heightListeners : ReadHeight(i)

SpecSubscribers == Init /\ [][NextSubscribers]_vars

(***************************************************************************)
(* Properties of the poller and of Stop.                                   *)
(***************************************************************************)
\* a call of Stop has returned
StopReturned == \E c \in Stoppers : stopPc[c] = "returned"

\* a call of Stop was made
StopCalled == \E c \in Stoppers : stopPc[c] # "idle"

\* this step sends nothing to the channels of ls
NothingSent(ls) ==
    \A i \in DOMAIN ls : i \in DOMAIN ls' /\ Len(ls'[i]) <= Len(ls[i])

\* this step sends nothing on any subscription
Silent ==
    /\ NothingSent(minuteListeners)
    /\ NothingSent(heightListeners)
    /\ NothingSent(dbheightListeners)
    /\ NothingSent(errorListeners)

\* C2: once a call of Stop has returned, no step delivers an Event, a height,
\* a committed height or an error on any subscription.
C2_PostStopSilence == [][StopReturned => Silent]_vars

\* C8: however many callers run Stop, one after another or at once, m.close
\* is closed at most once (never a close of a closed channel), it is closed
\* once some call has returned, and a call that finds the Once done returns
\* without changing anything of the monitor.
C8_StopOnce ==
    /\ [](closes <= 1)
    /\ [](StopReturned => close /\ closes = 1)
    /\ [][\A c \in Stoppers :
            (stopPc[c] = "do" /\ stopPc'[c] = "returned")
                => UNCHANGED <<position, listeners, runner, close, closer, closes>>]_vars

\* every caller has returned from Stop and the channel was closed once
C8_Witness ==
    /\ \A c \in Stoppers : stopPc[c] = "returned"
    /\ closes = 1
    /\ close

\* C9: once Stop has been called the goroutine of run exits, wherever it
\* is, and once it has exited it stays so.
C9_RunExits ==
    /\ StopCalled ~> (pc = "exited")
    /\ [][pc = "exited" => pc' = "exited"]_vars

\* run has exited after a Stop, its last poll having been a Transition
C9_Witness == pc = "exited" /\ close /\ advanced /\ height > 0

\* C10: the step that handles a failed request appends the error once to
\* every error listener with room and leaves the full ones alone, changes
\* neither the Position nor any other listener, and goes back to the wait
\* at the top of the loop; a failing request changes nothing either; and
\* run exits only when m.close is closed.
C10_PollFailure ==
    [][/\ (pc = "got" /\ err # noError /\ pc' # pc) =>
             /\ \A i \in DOMAIN errorListeners :
                   errorListeners'[i] =
                      IF Len(errorListeners[i]) < ErrorCap
                      THEN errorListeners[i] \o <<err>>
                      ELSE errorListeners[i]
             /\ UNCHANGED <<position, minuteListeners, heightListeners, dbheightListeners>>
             /\ pc' = "select"
       /\ (pc = "request" /\ err' # noError) => UNCHANGED <<position, listeners>>
       /\ (pc # "exited" /\ pc' = "exited") => close
      ]_vars

\* a failed poll was reported to a listener and the loop waits for its next tick
C10_Witness ==
    /\ pc = "select"
    /\ ~advanced
    /\ \E i \in DOMAIN errorListeners :
          Len(errorListeners[i]) > 0 /\ Len(errorListeners[i]) < ErrorCap

(***************************************************************************)
(* Properties of the State Tracker.                                        *)
(***************************************************************************)
\* this step is the call m.newHeight(resp)
NewHeightCalled == pc = "got" /\ err = noError /\ pc' = "handled"

\* (a, b) is strictly greater than (c, d) in lexicographic order
LexGreater(a, b, c, d) == a > c \/ (a = c /\ b > d)

\* the values of q increase strictly
Increasing(q) == \A k \in 1..(Len(q) - 1) : q[k] < q[k + 1]

\* the values of q never decrease
NonDecreasing(q) == \A k \in 1..(Len(q) - 1) : q[k] <= q[k + 1]

\* the Height fields of the Events queued in l
HeightsOf(l) == [k \in 1..Len(l) |-> l[k].Height]

\* C1: a call of newHeight returns true, overwrites the Position with the
\* Observation (minute modulo 10) and hands the Event to every minute
\* listener with room exactly when (LeaderHeight, Minute mod 10) is
\* lexicographically greater than the stored (height, minute); otherwise it
\* returns false and changes neither the Position nor any listener.
C1_TransitionIff ==
    [][NewHeightCalled =>
         IF LexGreater(resp.LeaderHeight, resp.Minute % 10, height, minute)
         THEN /\ advanced'
              /\ height' = resp.LeaderHeight
              /\ minute' = resp.Minute % 10
              /\ dbheight' = resp.DBHeight
              /\ \A i \in DOMAIN minuteListeners :
                    Len(minuteListeners[i]) < MinuteCap =>
                       minuteListeners'[i] = Append(minuteListeners[i],
                           [DBHeight |-> resp.DBHeight,
                            Height   |-> resp.LeaderHeight,
                            Minute   |-> resp.Minute % 10])
         ELSE /\ ~advanced'
              /\ UNCHANGED <<position, listeners>>
      ]_vars

\* newHeight has just returned true for a later minute of the stored height
C1_Witness ==
    /\ pc = "handled"
    /\ advanced
    /\ resp.LeaderHeight = height
    /\ resp.Minute = minute
    /\ minute > 0
    /\ \E i \in DOMAIN minuteListeners : minuteListeners[i] # <<>>

\* C3: the stored committed height never decreases, and the values a
\* reader of a committed-height listener gets, with those still queued for
\* it, never decrease.
C3_CommittedMonotone ==
    [][/\ dbheight' >= dbheight
       /\ \A i \in DOMAIN dbheightListeners' :
             NonDecreasing(<<dbheightSeen'[i]>> \o dbheightListeners'[i])
      ]_vars

\* C4: the stored height never decreases, the values a reader of a height
\* listener gets, with those still queued for it, increase strictly, and the
\* Height of the Events of a minute listener never decreases.
C4_HeightMonotone ==
    /\ [][height' >= height]_vars
    /\ [](\A i \in DOMAIN heightListeners :
             Increasing(<<heightSeen[i]>> \o heightListeners[i]))
    /\ [](\A i \in DOMAIN minuteListeners :
             NonDecreasing(<<minuteSeen[i].Height>> \o HeightsOf(minuteListeners[i])))

\* a reader of a height listener got one height and a greater one is queued
C4_Witness ==
    /\ \E i \in DOMAIN heightListeners :
          heightSeen[i] > 0 /\ heightListeners[i] # <<>>
    /\ height = MaxObsHeight

\* C5: the stored minute of a constructed monitor is in 0..9, and so is the
\* Minute of every Event queued for a minute listener.
C5_MinuteRange ==
    Constructed =>
       /\ minute \in 0..9
       /\ \A i \in DOMAIN minuteListeners :
             \A k \in 1..Len(minuteListeners[i]) : minuteListeners[i][k].Minute \in 0..9

\* C6: a call of newHeight with raw minute 10 and the stored height returns
\* false and changes neither the Position nor any listener.
C6_MinuteTenAbsorbed ==
    [][(NewHeightCalled /\ resp.Minute = 10 /\ resp.LeaderHeight = height) =>
          /\ ~advanced'
          /\ UNCHANGED <<position, listeners>>
      ]_vars

\* newHeight has just returned false for minute 10 of the stored height,
\* the stored minute being 0
C6_Witness ==
    /\ pc = "handled"
    /\ resp.Minute = 10
    /\ resp.LeaderHeight = height
    /\ minute = 0
    /\ ~advanced

(***************************************************************************)
(* Properties of the Broadcaster.                                          *)
(***************************************************************************)
\* this step appends v to every channel of ls that has room for it
SentToAllWithRoom(ls, v, cap) ==
    \A i \in DOMAIN ls : Len(ls[i]) < cap => ls'[i] = Append(ls[i], v)

\* C7: whatever the other listeners hold, also full ones nobody reads, the
\* poller can always take the step that calls notify or notifyError, and
\* that step hands its value to every listener of the kind that has room:
\* a Transition its Event to the minute listeners, a new height to the
\* height listeners, a new committed height to the committed-height
\* listeners, a failed request its error to the error listeners.
C7_Isolation ==
    /\ [](pc = "got" => ENABLED (HandleError \/ HandleResponse))
    /\ [][(NewHeightCalled /\ advanced') =>
            /\ SentToAllWithRoom(minuteListeners,
                  [DBHeight |-> dbheight', Height |-> height', Minute |-> minute'],
                  MinuteCap)
            /\ height' > height =>
                  SentToAllWithRoom(heightListeners, height', HeightCap)
            /\ dbheight' > dbheight =>
                  SentToAllWithRoom(dbheightListeners, dbheight', DBHeightCap)
         ]_vars
    /\ [][(pc = "got" /\ err # noError /\ pc' # pc) =>
            SentToAllWithRoom(errorListeners, err, ErrorCap)]_vars

\* the minute listener and the error listener nobody reads are full, and a
\* read minute listener has just got the Event of a Transition that the full
\* one has not
C7_Witness ==
    /\ pc = "handled"
    /\ advanced
    /\ Len(minuteListeners[1]) = MinuteCap
    /\ Len(errorListeners[1]) = ErrorCap
    /\ \E i \in DOMAIN minuteListeners :
          /\ minuteListeners[i] # <<>>
          /\ minuteListeners[i][Len(minuteListeners[i])].Height = height
          /\ minuteListeners[i][Len(minuteListeners[i])].Minute = minute
          /\ minuteListeners[1][MinuteCap] # minuteListeners[i][Len(minuteListeners[i])]

(***************************************************************************)
(* Properties of the construction.                                         *)
(***************************************************************************)
\* no channel of any kind exists
NoListeners ==
    /\ minuteListeners = <<>> /\ heightListeners = <<>>
    /\ dbheightListeners = <<>> /\ errorListeners = <<>>

\* C11: when the seed request fails NewMonitor returns no monitor: no
\* goroutine of run was started, no request is made afterwards, no listener
\* exists (so none receives anything) and nothing happens any more; when it
\* succeeds exactly one goroutine of run is started, and none before that.
C11_SeedFailure ==
    /\ [](pc = "failed" => pollers = 0 /\ ctx = "none" /\ NoListeners)
    /\ [][pc = "failed" => UNCHANGED vars]_vars
    /\ [](pc = "new" => pollers = 0 /\ NoListeners)
    /\ [](Constructed => pollers = 1)
    /\ [][(pc = "new" /\ pc' # "new") => pc' \in {"failed", "select"}]_vars

\* NewMonitor has failed against a node past its first block
C11_Witness == pc = "failed" /\ server.height > 0 /\ pollers = 0

\* C15: against a node that stands still, every call of GetCurrentMinute
\* on the monitor NewMonitor returned yields the height, the committed
\* height and the minute of the seed Observation, the call made before the
\* poller has issued its first request included; and NewMonitor stores the
\* fields of that Observation.
C15_SeedSnapshot ==
    /\ [](getPc \in {"unlock", "returned"} =>
            /\ snapshot.height = api(server).LeaderHeight
            /\ snapshot.dbheight = api(server).DBHeight
            /\ snapshot.minute = api(server).Minute)
    /\ [][(pc = "new" /\ pc' = "select") =>
            /\ height' = api(server).LeaderHeight
            /\ dbheight' = api(server).DBHeight
            /\ minute' = api(server).Minute]_vars

\* GetCurrentMinute has returned the seed triple of a node at
\* minute 0 of its last height, before the poller made any request
C15_Witness ==
    /\ getPc = "returned"
    /\ ctx = "none"
    /\ server = [height |-> MaxHeight, minute |-> 0]
    /\ snapshot = [height |-> MaxHeight, dbheight |-> MaxHeight - 1, minute |-> 0]

(***************************************************************************)
(* Properties of the delivery.                                             *)
(***************************************************************************)
\* l after a non-blocking send of v when send holds, else l as it was
After(l, v, cap, send) ==
    IF send /\ Len(l) < cap THEN l \o <<v>> ELSE l

Advances == 10 * server.height + server.minute

\* the poller has seen the node's position and every reader has emptied
\* its channel
Settled ==
    /\ Observed
    /\ pc \in {"select", "sleep"}
    /\ \A i \in DOMAIN minuteListeners : minuteListeners[i] = <<>>
    /\ \A i \in DOMAIN heightListeners : heightListeners[i] = <<>>

\* e is the position right after prev: the next minute, or minute 0 of the
\* next height after minute 9
Successor(prev, e) ==
    \/ e.Height = prev.Height /\ e.Minute = prev.Minute + 1
    \/ e.Height = prev.Height + 1 /\ e.Minute = 0 /\ prev.Minute = 9

PairsIncreasing(q) ==
    \A k \in 1..(Len(q) - 1) :
        LexGreater(q[k + 1].Height, q[k + 1].Minute, q[k].Height, q[k].Minute)

\* C14: a minute listener's channel changes only by the Event of the
\* Transition just classified being put at its end, or by its reader taking
\* the Event at its front; so what a reader receives is, in order, a
\* subsequence of the Transitions: the (Height, Minute) of what it got last
\* and of what is queued for it increase strictly, no Event comes twice.
C14_DeliveryOrder ==
    /\ [](\A i \in DOMAIN minuteListeners :
            PairsIncreasing(<<minuteSeen[i]>> \o minuteListeners[i]))
    /\ [][\A i \in DOMAIN minuteListeners :
            \/ minuteListeners'[i] = minuteListeners[i]
            \/ /\ NewHeightCalled /\ advanced'
               /\ minuteListeners'[i] = minuteListeners[i] \o
                     <<[DBHeight |-> dbheight', Height |-> height', Minute |-> minute']>>
            \/ /\ minuteListeners[i] # <<>>
               /\ minuteListeners'[i] = Tail(minuteListeners[i])
               /\ minuteSeen'[i].Height = Head(minuteListeners[i]).Height
               /\ minuteSeen'[i].Minute = Head(minuteListeners[i]).Minute]_vars

\* a reader has received Events and two more wait for it, in the order of
\* their Transitions, the second just classified
C14_Witness ==
    /\ pc = "handled"
    /\ advanced
    /\ \E i \in DOMAIN minuteListeners :
          /\ Len(minuteListeners[i]) = 2
          /\ minuteSeen[i].Minute > 0
          /\ minuteListeners[i][2].Minute = minute
          /\ minuteListeners[i][2].Height = height

(***************************************************************************)
(* Properties of GetCurrentMinute.                                         *)
(***************************************************************************)
\* newHeight is between its first store and its last
Storing == pc \in {"storeMinute", "storeDBHeight"}

\* C16: a call of GetCurrentMinute that runs while newHeight updates the
\* Position returns the three fields as they stand together between two
\* updates: when the call returns, what it read is the Position of that
\* moment and newHeight is not in the middle of its stores; while the call
\* reads, newHeight does not store.
C16_SnapshotWhole ==
    /\ [](getPc = "unlock" =>
            /\ snapshot.height = height
            /\ snapshot.dbheight = dbheight
            /\ snapshot.minute = minute
            /\ ~Storing)
    /\ [](getPc \in {"height", "dbheight", "minute", "unlock"} =>
            pc \notin {"storeHeight", "storeMinute", "storeDBHeight", "unlock"})

\* a call has read the Position of a new height while newHeight waits for
\* the mutex with the next minute
C16_Witness ==
    /\ getPc = "unlock"
    /\ pc = "lock"
    /\ snapshot.height = MaxHeight
    /\ snapshot.minute = 0
    /\ resp.Minute = 1

(***************************************************************************)
(* Properties of the requests and of the schedule of run.                  *)
(***************************************************************************)
\* C17: the step of Stop that closes m.close while a request of run is in
\* flight cancels the context of that request.
C17_StopCancels ==
    [][(pc = "request" /\ ~close /\ close') => ctx' = "cancelled"]_vars

\* C18: a call of newHeight with an Observation whose committed height is
\* greater than the stored one, and whose (height, minute modulo 10) is not
\* greater than the stored pair, stores the committed height of the
\* Observation and leaves height and minute as they are.
C18_CommittedAlone ==
    [][(/\ NewHeightCalled
        /\ resp.DBHeight > dbheight
        /\ ~LexGreater(resp.LeaderHeight, resp.Minute % 10, height, minute)) =>
           /\ dbheight' = resp.DBHeight
           /\ UNCHANGED <<height, minute>>
      ]_vars

\* C18, amended: a call of newHeight with an Observation whose committed
\* height is greater than the stored one, and whose (height, minute modulo
\* 10) is not greater than the stored pair, returns false and changes
\* nothing: the stored committed height stays as it is, like height and
\* minute, and nothing is sent.
C18_CommittedAloneIgnored ==
    [][(/\ NewHeightCalled
        /\ resp.DBHeight > dbheight
        /\ ~LexGreater(resp.LeaderHeight, resp.Minute % 10, height, minute)) =>
           /\ ~advanced'
           /\ UNCHANGED <<height, minute, dbheight>>
           /\ UNCHANGED listeners
      ]_vars

\* newHeight has returned false for the stored height and minute with a
\* greater committed height, which is not stored
C18_Witness ==
    /\ pc = "handled"
    /\ ~advanced
    /\ resp.LeaderHeight = height
    /\ resp.Minute = minute
    /\ resp.DBHeight = MaxObsHeight
    /\ dbheight < MaxObsHeight

\* |n|
Abs(n) == IF n < 0 THEN -n ELSE n

\* C19: after a Transition, when the time since the Transition before
\* differs from the nominal minute (block time / 10) by less than Interval,
\* run waits for a timer of (minute - Interval), making no request, and then
\* for the ticker again; when it differs by Interval or more, or the poll
\* was no Transition, run goes straight back to wait for the ticker; and a
\* request is only ever made after a receive from the ticker.
C19_AdaptiveSleep ==
    [][/\ (pc = "handled" /\ pc' # pc) =>
             IF advanced /\ Abs((DBlockSeconds * 1000) \div 10 - elapsed) < Interval
             THEN pc' = "sleep" /\ timer' = (DBlockSeconds * 1000) \div 10 - Interval
             ELSE pc' = "select"
       /\ (pc = "sleep" /\ pc' # pc) => pc' \in {"select", "exited"}
       /\ (pc' = "request" /\ pc' # pc) => pc = "select"
      ]_vars

\* run is in its sleep after a Transition of a later height
C19_Witness ==
    /\ pc = "sleep"
    /\ advanced
    /\ timer = SleepFor
    /\ height = MaxHeight
    /\ ~close

\* this step leaves the channels of ls that are full as they are, but for a
\* receive from their front
FullKept(ls, cap) ==
    \A i \in DOMAIN ls :
        Len(ls[i]) = cap => ls'[i] = ls[i] \/ ls'[i] = Tail(ls[i])

\* no channel of ls holds more than cap values
Bounded(ls, cap) == \A i \in DOMAIN ls : Len(ls[i]) <= cap

\* C20: a channel never holds more than its capacity (25 Events, 6
\* heights, 6 committed heights, 6 errors), and a send that finds it full
\* changes nothing of it: the values queued stay, in their order, and the
\* new one is dropped.
C20_DropWhenFull ==
    /\ [](/\ Bounded(minuteListeners, MinuteCap)
          /\ Bounded(heightListeners, HeightCap)
          /\ Bounded(dbheightListeners, DBHeightCap)
          /\ Bounded(errorListeners, ErrorCap))
    /\ [][/\ FullKept(minuteListeners, MinuteCap)
          /\ FullKept(heightListeners, HeightCap)
          /\ FullKept(dbheightListeners, DBHeightCap)
          /\ FullKept(errorListeners, ErrorCap)]_vars

\* the channels nobody reads are full, all four, and the height and the
\* Event of the Transition just made were dropped for them, while a
\* listener that is read got the Event
C20_Witness ==
    /\ pc = "handled"
    /\ advanced
    /\ Len(minuteListeners[1]) = MinuteCap
    /\ Len(heightListeners[1]) = HeightCap
    /\ Len(dbheightListeners[1]) = DBHeightCap
    /\ Len(errorListeners[1]) = ErrorCap
    /\ heightListeners[1][HeightCap] < height
    /\ minuteListeners[1][MinuteCap].Height < height
    /\ \E i \in DOMAIN minuteListeners \ Unread :
          /\ minuteListeners[i] # <<>>
          /\ minuteListeners[i][1].Height = height
          /\ minuteListeners[i][1].Minute = minute

(***************************************************************************)
(* The two mutexes.                                                        *)
(***************************************************************************)
\* the poller is at a statement of notify or notifyError that runs under
\* m.listenerMtx
Broadcasting == pc \in {"sending", "sendingError"}

\* the poller is at a statement of newHeight that runs under m.heightMtx
Updating == pc \in {"storeHeight", "storeMinute", "storeDBHeight", "unlock"}

\* whoever holds a mutex has a step to take
HoldersRun ==
    /\ heightMtx = "run" => ENABLED UpdateStep
    /\ heightMtx = "get" => ENABLED GetStep
    /\ listenerMtx = "run" => ENABLED (NewHeightNotify \/ NotifyErrorSend)
    /\ listenerMtx = "sub" => ENABLED SubAppend

\* C21: no goroutine holds m.heightMtx and m.listenerMtx at the same time.
\* A call of GetCurrentMinute that cannot take m.heightMtx waits for the
\* poller's stores of the Position and for nothing else (not for notify,
\* notifyError or a New...Listener); a New...Listener that cannot take
\* m.listenerMtx waits for the poller's sends and never for an update of
\* the Position; a call of
\* Stop takes no mutex and always has its next step; and whoever holds a
\* mutex can take a step, so no interleaving of the poller, the snapshot
\* reader, the subscriber and the caller of Stop ends in a deadlock.
C21_LocksApart ==
    /\ ~(heightMtx = "run" /\ listenerMtx = "run")
    /\ heightMtx = "run" <=> Updating
    /\ listenerMtx = "run" <=> Broadcasting
    /\ (getPc \in {"idle", "returned"} /\ ~ENABLED GetLock) => Updating
    /\ (subPc = "idle" /\ TotalListeners < NumListeners /\ ~ENABLED SubStep)
          => Broadcasting
    /\ stopPc[1] = "idle" => ENABLED StopCall(1)
    /\ stopPc[1] \in {"do", "closing"} => ENABLED (StopDo(1) \/ StopClose(1))
    /\ HoldersRun

\* the poller sends a Transition under m.listenerMtx while a call of
\* GetCurrentMinute reads under m.heightMtx, Stop was called and a
\* New...Listener waits for the poller
C21_Witness ==
    /\ pc = "sending"
    /\ listenerMtx = "run"
    /\ heightMtx = "get"
    /\ getPc = "dbheight"
    /\ stopPc[1] = "closing"
    /\ subPc = "idle"
    /\ TotalListeners < NumListeners

(***************************************************************************)
(* Subscriptions over the life of the Monitor.                             *)
(***************************************************************************)
\* the Event of the stored Position
EventNow == [DBHeight |-> dbheight, Height |-> height, Minute |-> minute]

\* no channel leaves ls, and a step adds at most one
Kept(ls) == Len(ls) <= Len(ls') /\ Len(ls') <= Len(ls) + 1

\* the channels of ls change by a receive from their front or, while the
\* poller sends, by the value v at their end, and in no other way
SendOrReceive(ls, sends, v) ==
    \A i \in DOMAIN ls :
        \/ ls'[i] = ls[i]
        \/ ls[i] # <<>> /\ ls'[i] = Tail(ls[i])
        \/ sends /\ ls'[i] = Append(ls[i], v)

\* the subscriber collections only grow
AppendOnly ==
    /\ Kept(minuteListeners)
    /\ Kept(heightListeners)
    /\ Kept(dbheightListeners)
    /\ Kept(errorListeners)

\* once the poller has returned, an empty channel stays empty
StaysEmpty(ls) == \A i \in DOMAIN ls : ls[i] = <<>> => ls'[i] = <<>>

\* a consumer of an empty channel has no step: the channel is open and
\* nothing is to be received from it
ConsumersBlocked ==
    /\ \A i \in DOMAIN minuteListeners :
          minuteListeners[i] = <<>> => ~ENABLED RecvMinute(i)
    /\ \A i \in DOMAIN heightListeners :
          heightListeners[i] = <<>> => ~ENABLED RecvHeight(i)
    /\ \A i \in DOMAIN dbheightListeners :
          dbheightListeners[i] = <<>> => ~ENABLED RecvDBHeight(i)
    /\ \A i \in DOMAIN errorListeners :
          errorListeners[i] = <<>> => ~ENABLED RecvError(i)

\* after the poller has returned nothing arrives on any channel
NeverReleased ==
    pc = "exited" =>
        /\ StaysEmpty(minuteListeners)
        /\ StaysEmpty(heightListeners)
        /\ StaysEmpty(dbheightListeners)
        /\ StaysEmpty(errorListeners)

\* notify sends to its listeners and returns
Delivers == pc = "sending" /\ pc' = "handled"

\* the channels of ls that get a value in this step are among the first n
AmongFirst(ls, n) == \A i \in DOMAIN ls : ls'[i] # ls[i] => i <= n

\* the channels that a step adds to ls are empty
FreshAtCreation(ls) == \A i \in DOMAIN ls' \ DOMAIN ls : ls'[i] = <<>>

\* no channel is added while the poller sends
CreatedApart(ls) == Len(ls') > Len(ls) => ~Broadcasting

Skips ==
    /\ IsProgress(Reduced(resp), height, minute)
    /\ ~Successor([Height |-> height, Minute |-> minute],
                  [Height |-> resp.LeaderHeight, Minute |-> resp.Minute % 10])

\* l got nothing, or v at its end
AtMostOne(l1, l2, v) == l2 = l1 \/ l2 = Append(l1, v)

\* C23: a poll whose Observation skips minutes or heights makes one
\* Transition: the Position becomes the observed one, every minute listener
\* gets one Event, which carries the observed position, every height and
\* committed-height listener gets at most one value, the observed height
\* resp. committed height, and nothing is sent for the positions skipped.
\* On every Transition the Event a minute listener gets is the Position as
\* stored when it is delivered.
C23_SkipsOnce ==
    /\ [][(NewHeightCalled /\ Skips) =>
            /\ advanced'
            /\ EventNow' = [DBHeight |-> resp.DBHeight, Height |-> resp.LeaderHeight,
                            Minute |-> resp.Minute % 10]
            /\ \A i \in DOMAIN minuteListeners :
                  minuteListeners'[i] = Append(minuteListeners[i], EventNow')
            /\ \A i \in DOMAIN heightListeners :
                  AtMostOne(heightListeners[i], heightListeners'[i], resp.LeaderHeight)
            /\ \A i \in DOMAIN dbheightListeners :
                  AtMostOne(dbheightListeners[i], dbheightListeners'[i], resp.DBHeight)
         ]_vars
    /\ [][(NewHeightCalled /\ advanced') =>
            \A i \in DOMAIN minuteListeners :
                minuteListeners'[i] # minuteListeners[i] =>
                    minuteListeners'[i] = Append(minuteListeners[i], EventNow')
         ]_vars

\* the reader had received the Event of height 0, minute 3; the next
\* Transition went to height 2, minute 5: one Event of that position and
\* the one height 2 are queued, nothing of height 1
C23_Witness ==
    /\ pc = "handled"
    /\ advanced
    /\ minuteSeen[1] = [Height |-> 0, Minute |-> 3]
    /\ height = 2
    /\ minute = 5
    /\ Len(minuteListeners[1]) = 1
    /\ minuteListeners[1][1].Height = 2
    /\ minuteListeners[1][1].Minute = 5
    /\ heightListeners[1] = <<2>>

====
